---- MODULE Spec2Model ----
(***************************************************************************)
(* MH-Z14A CO2 sensor reader (mhz14a.cpp): the receive state machine       *)
(* rx_packet, the three frame writers, and main's start-up handshake and   *)
(* steady-state loop.  Bytes are integers 0..255; the accumulator is an    *)
(* unsigned char, so every addition into it is taken modulo 256.           *)
(* Init is the state at line 153: the device is open and configured, and   *)
(* nothing has been written or read.  cur_time is written and read within  *)
(* one cadence step only, so it is a LET of that step and no variable.     *)
(***************************************************************************)
EXTENDS Integers, Sequences, FiniteSets, TLC

VARIABLES
  rxstate,     \* rx_packet: static int rxstate
  checksum,    \* rx_packet: static unsigned char checksum
  byte3,       \* rx_packet: static unsigned char byte3
  packet,      \* rx_packet: static PacketType packet
  co2_level,   \* global int co2_level
  pc,          \* main: the position of control
  ref_time,    \* main: time_t ref_time
  timed_out,   \* main: int timed_out
  status,      \* main: the exit status once main has returned, else -1
  now,         \* the clock read by time(NULL), in whole seconds
  line,        \* the link, sensor to host: bytes written by the sensor, not yet read
  tx,          \* the link, host to sensor: the frames written, in order
  stdout,      \* the values printed on the standard output, in order
  stderr,      \* the messages printed on the standard error, in order
  ret,         \* the value returned by the latest call of rx_packet
  win,         \* history: the bytes of the current window (from a 0xFF read at a boundary)
  before,      \* history: co2_level at the latest frame boundary
  garbage,     \* history: a non-0xFF byte was read at the boundary, before the window
  nret,        \* history: the number of non-None returns since the latest frame boundary
  last,        \* history: the latest non-None return since that boundary, else "None"
  acks,        \* history: ABCOff was returned; SetRange was, after set_range was written
  t0,          \* history: the clock when the steady-state loop was entered
  fresh,       \* history: a cadence step has read the present value of the clock
  missed,      \* history: the clock passed a value that no cadence step read
  disturbed,   \* history: "no", "pending" (a disturbed frame is on the link), "yes"
  dleft,       \* history: the bytes left on the link right after the disturbance
  since,       \* history: the bytes read since the disturbance
  synced,      \* history: after the disturbance, a true sentinel was read in state 1
  ffseen,      \* history: after the disturbance, a 0xFF was read in state 1
  tame,        \* history: no frame had 0xFF after its sentinel, nor gained its own checksum byte
  quiet,       \* history: the link has delivered no byte so far
  strays,      \* history: the number of stray bytes the sensor has written
  prevbad,     \* history: the window right before this one failed its checksum
  range_buf,   \* set_range: static unsigned char buf[9]
  call,        \* history: the latest call of a frame writer, its argument and result
  ncalls       \* history: the number of calls the writers' caller has made

decoder == <<rxstate, checksum, byte3, packet, co2_level>>
control == <<pc, ref_time, timed_out, status>>
outputs == <<tx, stdout, stderr>>
history == <<ret, win, before, garbage, nret, last, acks, quiet, strays, prevbad>>
codec   == <<range_buf, call, ncalls>>
cadence == <<t0, fresh, missed>>
desync  == <<disturbed, dleft, since, synced, ffseen, tame>>
vars == <<decoder, control, outputs, history, cadence, desync, codec, now, line>>

(***************************************************************************)
(* Bytes and frames                                                        *)
(***************************************************************************)
RECURSIVE SumSeq(_)
SumSeq(s) == IF s = <<>> THEN 0 ELSE Head(s) + SumSeq(Tail(s))

\* The condition under which a received 9-byte window is accepted.
ChecksumOK(w) == SumSeq(w) % 256 = 255

\* typedef enum {None,CO2Level,ABCOff,SetRange,Other} PacketType
PacketType == {"None", "CO2Level", "ABCOff", "SetRange", "Other"}

(***************************************************************************)
(* rx_packet, lines 26-92, as a function of the statics and the byte read  *)
(***************************************************************************)
\* The inner switch of state 2: the packet kind of a command byte.
CmdKindSwapped(c) ==
  CASE c = 134 -> "CO2Level"
    [] c = 121 -> "SetRange"
    [] c = 153 -> "ABCOff"
    [] OTHER   -> "Other"

CmdKind(c) ==
  CASE c = 134 -> "CO2Level"    \* 0x86
    [] c = 121 -> "ABCOff"      \* 0x79
    [] c = 153 -> "SetRange"    \* 0x99
    [] OTHER   -> "Other"

\* case 1, taking any byte for the start of a packet.
RxState1AnyByte(d, c) == [d EXCEPT !.rxstate = 2, !.checksum = c]

\* case 1, without the reset of the accumulator to the start byte.
RxState1NoReset(d, c) ==
  IF c = 255 THEN [d EXCEPT !.rxstate = 2] ELSE d

\* case 1: waiting for the 0xff start of packet.  d.checksum already holds
\* the byte (checksum += c runs before the switch).
RxState1(d, c) ==
  IF c = 255 THEN [d EXCEPT !.rxstate = 2, !.checksum = c] ELSE d

\* case 4, with the measurement written whatever the latched packet kind.
RxState4Always(d, c) ==
  [d EXCEPT !.co2_level = 256 * d.byte3 + c, !.rxstate = d.rxstate + 1]

\* case 4, leaving the switch without the fall through to the increment.
RxState4Break(d, c) ==
  IF d.packet = "CO2Level" THEN [d EXCEPT !.co2_level = 256 * d.byte3 + c] ELSE d

\* case 4: the low data byte; falls through to the increment of cases 5..8.
RxState4(d, c) ==
  IF d.packet = "CO2Level"
    THEN [d EXCEPT !.co2_level = 256 * d.byte3 + c, !.rxstate = d.rxstate + 1]
    ELSE [d EXCEPT !.rxstate = d.rxstate + 1]

\* case 9, going back to state 1 only when the checksum matches.
RxState9OnSuccess(d) ==
  IF d.checksum = 255 THEN [d EXCEPT !.rxstate = 1] ELSE d

\* case 9, without the return to state 1.
RxState9Stay(d) == d

\* case 9: the checksum byte ends the window.
RxState9(d) == [d EXCEPT !.rxstate = 1]

\* case 9, returning the packet whatever the accumulator holds.
RxReturnUnchecked(d) == d.packet

\* case 9: the value returned on the checksum byte.
RxReturn(d) == IF d.checksum = 255 THEN d.packet ELSE "None"

\* One call of rx_packet in which read() delivered the byte c: the statics
\* after the call and the value returned.
RxStep(d0, c) ==
  LET d == [d0 EXCEPT !.checksum = (d0.checksum + c) % 256]
  IN CASE d.rxstate = 1 -> [d |-> RxState1(d, c), ret |-> "None"]
       [] d.rxstate = 2 -> [d |-> [d EXCEPT !.packet = CmdKind(c), !.rxstate = 3],
                            ret |-> "None"]
       [] d.rxstate = 3 -> [d |-> [d EXCEPT !.byte3 = c, !.rxstate = 4], ret |-> "None"]
       [] d.rxstate = 4 -> [d |-> RxState4(d, c), ret |-> "None"]
       [] d.rxstate \in 5..8 -> [d |-> [d EXCEPT !.rxstate = d.rxstate + 1], ret |-> "None"]
       [] d.rxstate = 9 -> [d |-> RxState9(d), ret |-> RxReturn(d)]
       [] OTHER -> [d |-> d, ret |-> "None"]

\* The statics as one record.
Statics ==
  [rxstate |-> rxstate, checksum |-> checksum, byte3 |-> byte3,
   packet |-> packet, co2_level |-> co2_level]

\* rx_packet fed a byte sequence one byte per call, from the statics d:
\* the statics at the end, the latest return value and the number of
\* non-None returns.
RECURSIVE Feed(_, _, _)
Feed(d, s, n) ==
  IF s = <<>> THEN [d |-> d, ret |-> "None", n |-> n]
  ELSE LET r == RxStep(d, Head(s))
           m == IF r.ret = "None" THEN n ELSE n + 1
       IN IF Len(s) = 1 THEN [d |-> r.d, ret |-> r.ret, n |-> m]
          ELSE Feed(r.d, Tail(s), m)

(***************************************************************************)
(* The frame writers, lines 94-124                                         *)
(***************************************************************************)
\* request_co2_level: the static buffer written to the link.
RequestFrame == <<255, 1, 134, 0, 0, 0, 0, 0, 121>>

\* abc_off: the static buffer written to the link.
AbcOffFrame == <<255, 1, 121, 0, 0, 0, 0, 0, 134>>

\* set_range: buf after buf[3], buf[4] and buf[8] are stored.
SetRangeFrame(range) ==
  LET hi == (range \div 256) % 256
      lo == range % 256
      ck == ((255 - ((1 + 153 + hi + lo + 0 + 0 + 0) % 256)) + 1) % 256
  IN <<255, 1, 153, hi, lo, 0, 0, 0, ck>>

\* set_range: the initial value of its static buffer.
SetRangeBuf == <<255, 1, 153, 0, 0, 0, 0, 0, 0>>

\* Lines 116-119, with the checksum added to what buf[8] held.
SetRangeStoreAccum(buf, range) ==
  LET b == [buf EXCEPT ![4] = (range \div 256) % 256, ![5] = range % 256]
  IN [b EXCEPT ![9] = (b[9] + (255 - ((b[2] + b[3] + b[4] + b[5] + b[6] + b[7] + b[8])
                                        % 256)) + 1) % 256]

\* Lines 116-119: buf[3], buf[4] and buf[8] stored into the buffer buf
\* (unsigned char stores, so modulo 256; buf[0] is not part of the sum).
SetRangeStore(buf, range) ==
  LET b == [buf EXCEPT ![4] = (range \div 256) % 256, ![5] = range % 256]
  IN [b EXCEPT ![9] = ((255 - ((b[2] + b[3] + b[4] + b[5] + b[6] + b[7] + b[8])
                                 % 256)) + 1) % 256]

\* set_range, storing into the buffer before the range is tested.
SetRangeStoreFirst(buf, range) ==
  LET b == SetRangeStore(buf, range)
  IN IF range # 2000 /\ range # 5000 /\ range # 10000
       THEN [rc |-> -1, buf |-> b, written |-> <<>>]
       ELSE [rc |-> 0, buf |-> b, written |-> <<b>>]

\* set_range called with its static buffer holding buf: the value returned,
\* the buffer afterwards and the frames written to the link.
SetRange(buf, range) ==
  IF range # 2000 /\ range # 5000 /\ range # 10000
    THEN [rc |-> -1, buf |-> buf, written |-> <<>>]
    ELSE LET b == SetRangeStore(buf, range)
         IN [rc |-> 0, buf |-> b, written |-> <<b>>]

(***************************************************************************)
(* The sensor: what it may put on the link                                 *)
(***************************************************************************)
\* A checksum-valid reply FF cmd hi lo 00 00 00 00 CK.
Reply(cmd, hi, lo) ==
  <<255, cmd, hi, lo, 0, 0, 0, 0, (256 - ((cmd + hi + lo) % 256)) % 256>>

\* The frame f with its checksum byte off by one.
Corrupt(f) == [f EXCEPT ![9] = (f[9] + 1) % 256]

\* The frame f without its i-th byte, and with the byte x put after its i-th.
Drop(f, i) == SubSeq(f, 1, i - 1) \o SubSeq(f, i + 1, Len(f))
Inject(f, i, x) == SubSeq(f, 1, i) \o <<x>> \o SubSeq(f, i + 1, Len(f))

\* The replies and stray bytes offered to the decoder on its own.
RxChunks ==
  {Reply(cmd, hi, lo) : cmd \in {134, 121, 153}, hi \in {0, 1}, lo \in {0, 164}}
    \cup {Corrupt(Reply(cmd, 1, lo)) : cmd \in {134, 121}, lo \in {0, 164}}
    \cup {AbcOffFrame, RequestFrame, SetRangeFrame(10000)}

\* The bytes that may turn up on the link outside any frame.
StrayBytes == {0, 134, 255}

\* The replies and stray bytes offered to the running program.
MainChunks ==
  {Reply(121, 1, 0), Reply(153, 1, 0), Reply(134, 1, 164),
   Corrupt(Reply(134, 0, 7)), Reply(1, 2, 3)}

\* Back-to-back valid frames, some with 0xFF in the payload.
DesyncFrames == {Reply(cmd, 1, lo) : cmd \in {134, 121}, lo \in {164, 255}}
InjectBytes == {0, 213, 255}

MaxStray == 2       \* at most this many stray bytes turn up on the link

\* The frame f has no 0xFF after its sentinel.
NoFalseSentinel(f) == \A i \in 2..Len(f) : f[i] # 255

\* The sensor puts a whole frame on the idle link.
SensorWrite(chunks) ==
  /\ line = <<>>
  /\ \E f \in chunks :
       /\ line' = f
       /\ tame' = (tame /\ NoFalseSentinel(f))
  /\ UNCHANGED <<decoder, control, outputs, history, cadence, disturbed, dleft,
                 since, synced, ffseen, codec, now>>

\* A stray byte turns up on the idle link.
SensorStray ==
  /\ line = <<>>
  /\ strays < MaxStray
  /\ \E c \in StrayBytes : line' = <<c>>
  /\ strays' = strays + 1
  /\ UNCHANGED <<decoder, control, outputs, ret, win, before, garbage, nret, last,
                 acks, quiet, prevbad,
                 cadence, desync, codec, now>>

\* A frame that loses its i-th byte on the way (not the sentinel, not the last).
SensorDrop ==
  /\ line = <<>>
  /\ disturbed = "no"
  /\ \E f \in DesyncFrames, i \in 2..8 :
       /\ line' = Drop(f, i)
       /\ dleft' = 9 - i
       /\ tame' = (tame /\ NoFalseSentinel(f))
  /\ disturbed' = "pending"
  /\ UNCHANGED <<decoder, control, outputs, history, cadence, since, synced, ffseen,
                 codec, now>>

\* A frame that gains the byte x after its i-th byte on the way.
SensorInject ==
  /\ line = <<>>
  /\ disturbed = "no"
  /\ \E f \in DesyncFrames, i \in 1..8, x \in InjectBytes :
       /\ line' = Inject(f, i, x)
       /\ dleft' = 9 - i
       /\ tame' = (tame /\ NoFalseSentinel(f) /\ x # f[9])
  /\ disturbed' = "pending"
  /\ UNCHANGED <<decoder, control, outputs, history, cadence, since, synced, ffseen,
                 codec, now>>

(***************************************************************************)
(* One call of rx_packet, lines 26-92: read() delivers the head of the     *)
(* link (avail) or nothing.  The history variables record the window.      *)
(***************************************************************************)
FrameLen == 9

\* Line 34 failing, with the state machine put back to state 1.
RxIdleReset(d) == [d EXCEPT !.rxstate = 1]

\* Line 34 failing: read() delivered nothing, the switch is skipped and the
\* statics stay as they are.
RxIdle(d) == d

RxPacket(avail) ==
  IF avail
  THEN LET c == Head(line)
           r == RxStep(Statics, c)
           atBoundary == win = <<>> \/ Len(win) = FrameLen
           hitNow == disturbed = "pending" /\ Len(line) - 1 = dleft
       IN /\ rxstate' = r.d.rxstate
          /\ checksum' = r.d.checksum
          /\ byte3' = r.d.byte3
          /\ packet' = r.d.packet
          /\ co2_level' = r.d.co2_level
          /\ ret' = r.ret
          /\ line' = Tail(line)
          /\ quiet' = FALSE
          /\ win' = IF atBoundary THEN (IF c = 255 THEN <<c>> ELSE <<>>)
                                  ELSE Append(win, c)
          /\ before' = IF Len(win) = FrameLen THEN co2_level ELSE before
          /\ garbage' = IF Len(win) = FrameLen THEN c # 255
                        ELSE IF win = <<>> THEN garbage \/ c # 255
                        ELSE garbage
          /\ nret' = (IF Len(win) = FrameLen THEN 0 ELSE nret)
                       + (IF r.ret = "None" THEN 0 ELSE 1)
          /\ last' = IF r.ret # "None" \/ Len(win) = FrameLen THEN r.ret ELSE last
          /\ acks' = acks \cup (IF r.ret = "ABCOff" THEN {"ABCOff"} ELSE {})
                          \cup (IF r.ret = "SetRange" /\ Len(tx) >= 2
                                  THEN {"SetRange"} ELSE {})
          /\ disturbed' = IF hitNow THEN "yes" ELSE disturbed
          /\ since' = IF hitNow THEN 0
                      ELSE IF disturbed = "yes" /\ since < 2 * FrameLen THEN since + 1
                      ELSE since
          /\ ffseen' = (ffseen \/ (disturbed = "yes" /\ rxstate = 1 /\ c = 255))
          /\ synced' = (synced \/ (disturbed' = "yes" /\ r.d.rxstate = 1
                                     /\ Tail(line) = <<>>))
          /\ prevbad' = IF Len(win) = FrameLen THEN (c = 255 /\ ~ChecksumOK(win))
                        ELSE IF win = <<>> THEN FALSE
                        ELSE prevbad
          /\ UNCHANGED <<dleft, tame, strays>>
  ELSE LET d == RxIdle(Statics)
       IN /\ rxstate' = d.rxstate
          /\ checksum' = d.checksum
          /\ byte3' = d.byte3
          /\ packet' = d.packet
          /\ co2_level' = d.co2_level
          /\ ret' = "None"
          /\ UNCHANGED <<line, win, before, garbage, nret, last, acks, quiet,
                         strays, prevbad, desync>>

\* What read() may deliver: a byte only if one is on the link.
Avail == IF line = <<>> THEN {FALSE} ELSE {TRUE, FALSE}

\* A caller that only pumps the decoder.
RxLoop ==
  /\ \E avail \in Avail : RxPacket(avail)
  /\ UNCHANGED <<control, outputs, cadence, codec, now>>

(***************************************************************************)
(* main, lines 153-215                                                     *)
(***************************************************************************)
MaxStart == 1       \* outside the wait loops, start-up takes at most this long
MaxClock == 22      \* the steady-state loop is followed until the clock reads this
MaxOut == 2         \* at most this many readings are printed
HandshakeSecs == 2
CadenceSecs == 10

\* The loop test of both handshake waits.
WaitingNoDeadline(t) == TRUE
Waiting(t) == t - ref_time < HandshakeSecs

\* The break test of a handshake wait, met by any decoded frame.
AckedByAny(r, want) == r # "None"
\* The break test, met by either acknowledgement.
AckedEither(r, want) == r \in {"ABCOff", "SetRange"}
\* Lines 163 and 183: the break test of a handshake wait.
Acked(r, want) == r = want

\* Lines 155-157: abc_off(fd); ref_time = time(NULL); timed_out = 1.
SendAbcOff ==
  /\ pc = "abc_off"
  /\ tx' = Append(tx, AbcOffFrame)
  /\ ref_time' = now
  /\ timed_out' = 1
  /\ pc' = "abc_wait"
  /\ UNCHANGED <<decoder, status, stdout, stderr, history, cadence,
                 desync, codec, now, line>>

\* One test of a handshake loop and, if it passes, one run of its body.
Wait(want, next) ==
  IF Waiting(now)
  THEN /\ \E avail \in Avail : RxPacket(avail)
       /\ IF Acked(ret', want)
            THEN timed_out' = 0 /\ pc' = next
            ELSE UNCHANGED <<timed_out, pc>>
       /\ UNCHANGED <<ref_time, status, outputs, cadence, codec, now>>
  ELSE /\ pc' = next
       /\ UNCHANGED <<decoder, ref_time, timed_out, status, outputs,
                      history, cadence, desync, codec, now, line>>

\* Lines 159-167.
AbcWait == pc = "abc_wait" /\ Wait("ABCOff", "abc_check")

\* Lines 169-177, going on to set_range after the error message.
AbcCheckNoReturn ==
  /\ pc = "abc_check"
  /\ stderr' = IF timed_out # 0 THEN Append(stderr, "ABC off") ELSE stderr
  /\ tx' = tx \o SetRange(range_buf, 10000).written
  /\ range_buf' = SetRange(range_buf, 10000).buf
  /\ ref_time' = now
  /\ timed_out' = 1
  /\ pc' = "range_wait"
  /\ UNCHANGED <<decoder, status, stdout, history, cadence, desync,
                 call, ncalls, now, line>>

\* Lines 169-177: the timeout exit, else set_range(fd,10000) and the new deadline.
AbcCheck ==
  /\ pc = "abc_check"
  /\ IF timed_out # 0
       THEN /\ stderr' = Append(stderr, "ABC off")
            /\ status' = 1
            /\ pc' = "exit"
            /\ UNCHANGED <<tx, range_buf, ref_time, timed_out>>
       ELSE /\ tx' = tx \o SetRange(range_buf, 10000).written
            /\ range_buf' = SetRange(range_buf, 10000).buf
            /\ ref_time' = now
            /\ timed_out' = 1
            /\ pc' = "range_wait"
            /\ UNCHANGED <<stderr, status>>
  /\ UNCHANGED <<decoder, stdout, history, cadence, desync, call, ncalls, now, line>>

\* Lines 179-187.
RangeWait == pc = "range_wait" /\ Wait("SetRange", "range_check")

\* Lines 189-198: the timeout exit, else the entry to the steady-state loop.
RangeCheck ==
  /\ pc = "range_check"
  /\ IF timed_out # 0
       THEN /\ stderr' = Append(stderr, "Set range")
            /\ status' = 1
            /\ pc' = "exit"
            /\ UNCHANGED <<ref_time, t0, fresh>>
       ELSE /\ ref_time' = now
            /\ t0' = now
            /\ fresh' = FALSE
            /\ pc' = "steady"
            /\ UNCHANGED <<stderr, status>>
  /\ UNCHANGED <<decoder, timed_out, tx, stdout, history, missed,
                 desync, codec, now, line>>

\* Lines 201-205: pump the decoder once; print on CO2Level.
SteadyRx ==
  /\ pc = "steady"
  /\ \E avail \in Avail : RxPacket(avail)
  /\ IF ret' = "CO2Level"
       THEN Len(stdout) < MaxOut /\ stdout' = Append(stdout, co2_level')
       ELSE UNCHANGED stdout
  /\ pc' = "cadence"
  /\ UNCHANGED <<ref_time, timed_out, status, tx, stderr, cadence, codec, now>>

\* The cadence step, restarting the schedule from the clock.
NextRefNow(t) == t
\* The cadence step, moving ref_time to the latest period start passed.
NextRefSkip(t) == ref_time + CadenceSecs * ((t - ref_time - 1) \div CadenceSecs)
\* Line 213: ref_time += 10.
NextRef(t) == ref_time + CadenceSecs

\* Lines 207-214: the cadence step.
Cadence ==
  /\ pc = "cadence"
  /\ LET cur_time == now
     IN IF cur_time - ref_time > CadenceSecs
          THEN /\ tx' = Append(tx, RequestFrame)
               /\ ref_time' = NextRef(cur_time)
          ELSE UNCHANGED <<tx, ref_time>>
  /\ fresh' = TRUE
  /\ pc' = "steady"
  /\ UNCHANGED <<decoder, timed_out, status, stdout, stderr, history, t0,
                 missed, desync, codec, now, line>>

\* A second passes on the clock that time(NULL) reads.
Tick ==
  /\ \/ pc \in {"abc_wait", "range_wait"} /\ now - ref_time < HandshakeSecs
     \/ pc \in {"steady", "cadence"} /\ now < MaxClock
     \/ pc \notin {"steady", "cadence"} /\ now < MaxStart
  /\ now' = now + 1
  /\ fresh' = FALSE
  /\ missed' = (missed \/ (pc \in {"steady", "cadence"} /\ ~fresh))
  /\ UNCHANGED <<decoder, control, outputs, history, t0, desync, codec, line>>

(***************************************************************************)
(* Specifications                                                          *)
(***************************************************************************)
Init ==
  /\ rxstate = 1 /\ checksum = 0 /\ byte3 = 0 /\ packet = "None"
  /\ co2_level = -1
  /\ pc = "abc_off" /\ ref_time = 0 /\ timed_out = 0
  /\ status = -1
  /\ now = 0 /\ line = <<>>
  /\ tx = <<>> /\ stdout = <<>> /\ stderr = <<>>
  /\ ret = "None" /\ win = <<>> /\ before = -1 /\ garbage = FALSE /\ nret = 0
  /\ last = "None" /\ acks = {}
  /\ quiet = TRUE /\ strays = 0 /\ prevbad = FALSE
  /\ range_buf = SetRangeBuf
  /\ call = [op |-> "none", arg |-> 0, rc |-> 0] /\ ncalls = 0
  /\ t0 = 0 /\ fresh = FALSE /\ missed = FALSE
  /\ disturbed = "no" /\ dleft = 0 /\ since = 0 /\ synced = FALSE
  /\ ffseen = FALSE /\ tame = TRUE

Main ==
  \/ SendAbcOff \/ AbcWait \/ AbcCheck \/ RangeWait \/ RangeCheck
  \/ SteadyRx \/ Cadence

\* The program on a link to a sensor, with the clock running.
Next == Main \/ Tick \/ SensorWrite(MainChunks)
Spec == Init /\ [][Next]_vars

\* Start-up alone: the clock is followed until the steady-state loop is
\* entered; it keeps advancing and the program keeps being scheduled.
TickStart == pc \notin {"steady", "cadence"} /\ Tick
NextStart == Main \/ TickStart \/ SensorWrite(MainChunks)
FairSpec == Init /\ [][NextStart]_vars /\ WF_vars(TickStart) /\ WF_vars(Main)

\* The decoder alone, pumped on a stream of replies and stray bytes.
NextRx == RxLoop \/ SensorWrite(RxChunks) \/ SensorStray
SpecRx == Init /\ [][NextRx]_vars

\* The decoder alone on back-to-back valid frames, one of them disturbed.
NextDesync == RxLoop \/ SensorWrite(DesyncFrames) \/ SensorDrop \/ SensorInject
SpecDesync == Init /\ [][NextDesync]_vars

\* The frame writers called in any order by a caller of its own, the
\* decoder being pumped in between.
MaxCalls == 3       \* at most this many calls of the writers are followed
Ranges == {0, 2000, 3000, 5000, 10000, 10001}
CodecChunks == {Reply(134, 1, 164)}

\* set_range(fd, range) for some range.
CallSetRange ==
  /\ ncalls < MaxCalls
  /\ \E range \in Ranges :
       LET r == SetRange(range_buf, range)
       IN /\ tx' = tx \o r.written
          /\ range_buf' = r.buf
          /\ call' = [op |-> "set_range", arg |-> range, rc |-> r.rc]
  /\ ncalls' = ncalls + 1
  /\ UNCHANGED <<decoder, control, stdout, stderr, history, cadence, desync, now, line>>

\* abc_off(fd).
CallAbcOff ==
  /\ ncalls < MaxCalls
  /\ tx' = Append(tx, AbcOffFrame)
  /\ call' = [op |-> "abc_off", arg |-> 0, rc |-> 0]
  /\ ncalls' = ncalls + 1
  /\ UNCHANGED <<decoder, control, stdout, stderr, history, cadence, desync,
                 range_buf, now, line>>

\* request_co2_level(fd).
CallRequest ==
  /\ ncalls < MaxCalls
  /\ tx' = Append(tx, RequestFrame)
  /\ call' = [op |-> "request_co2_level", arg |-> 0, rc |-> 0]
  /\ ncalls' = ncalls + 1
  /\ UNCHANGED <<decoder, control, stdout, stderr, history, cadence, desync,
                 range_buf, now, line>>

NextCodec ==
  \/ CallSetRange \/ CallAbcOff \/ CallRequest
  \/ RxLoop \/ SensorWrite(CodecChunks)
SpecCodec == Init /\ [][NextCodec]_vars

(***************************************************************************)
(* Properties of the decoder                                               *)
(***************************************************************************)
\* A window is complete once its ninth byte has been read.
Complete == Len(win) = FrameLen

\* The two example frames: the ABC-off acknowledgement and a reading of 420 ppm.
AbcAckExample == <<255, 121, 1, 0, 0, 0, 0, 0, 134>>
Co2Example == <<255, 134, 1, 164, 0, 0, 0, 0, 213>>

\* C1: a window that does not end with rx_packet returning CO2Level leaves
\* co2_level as it was at the frame boundary before the window.
MeasurementConfined ==
  (Complete /\ last # "CO2Level") => co2_level = before

\* C3: within a window that starts with 0xFF at state 1 the first eight calls
\* return None; the ninth returns the latched packet kind exactly when the
\* nine bytes sum to 0xFF modulo 256, and None otherwise; the accumulator
\* holds the sum of the window's bytes modulo 256 whatever was read before
\* the window; the two example frames decode to ABCOff and to CO2Level, 420.
ChecksumDecides ==
  /\ (Len(win) \in 1..(FrameLen - 1)) =>
        /\ ret = "None" /\ nret = 0
        /\ checksum = SumSeq(win) % 256
  /\ Complete =>
        /\ win[1] = 255
        /\ checksum = SumSeq(win) % 256
        /\ packet # "None"
        /\ (last # "None") <=> (SumSeq(win) % 256 = 255)
        /\ last \in {"None", packet}
        /\ nret = IF SumSeq(win) % 256 = 255 THEN 1 ELSE 0
  /\ (win = AbcAckExample) => (last = "ABCOff")
  /\ (win = Co2Example) => (last = "CO2Level" /\ co2_level = 420)

\* C3 witness: the 420 ppm example has been decoded after stray bytes.
ChecksumDecidesWitness ==
  win = Co2Example /\ garbage /\ last = "CO2Level" /\ co2_level = 420

\* The packet kind the claim C4 gives to a command byte.
KindOfCode(c) ==
  IF c = 134 THEN "CO2Level"
  ELSE IF c = 121 THEN "ABCOff"
  ELSE IF c = 153 THEN "SetRange"
  ELSE "Other"

\* C4 as stated: the kind of an accepted frame is that of its byte 2 (the
\* third byte of the window), byte 1 being an address byte that is ignored;
\* so the frames built by abc_off, set_range and request_co2_level, fed
\* back, are classified ABCOff, SetRange and CO2Level.
ClassifiedByByte2 ==
  (Complete /\ ChecksumOK(win)) => last = KindOfCode(win[3])

\* C4 as amended: the kind of an accepted frame is that of its byte 1, the
\* byte that follows the 0xFF sentinel; byte 2 (the 0x01 of a frame built by
\* abc_off, set_range or request_co2_level sits in byte 1, so such a frame
\* fed back is classified Other).
ClassifiedByByte1 ==
  (Complete /\ ChecksumOK(win)) =>
     /\ last = KindOfCode(win[2])
     /\ (win \in {AbcOffFrame, RequestFrame, SetRangeFrame(10000)}) => last = "Other"

\* C4 witness: the frame built by abc_off was fed back and returned as Other.
ClassifiedByByte1Witness ==
  win = AbcOffFrame /\ last = "Other" /\ nret = 1

\* The statics of a decoder in state 1 that has read nothing, with the
\* measurement m.
Fresh(m) ==
  [rxstate |-> 1, checksum |-> 0, byte3 |-> 0, packet |-> "None", co2_level |-> m]

\* C5: bytes other than 0xFF read in state 1 leave the decoder in state 1 and
\* return None; a checksum-valid frame that follows them yields exactly one
\* non-None return, on its last byte, with the kind and the co2_level that
\* the frame alone yields from state 1.
PrefixGarbageInvariance ==
  /\ (win = <<>>) => (rxstate = 1 /\ ret = "None")
  /\ (garbage /\ Len(win) < FrameLen) => nret = 0
  /\ (garbage /\ Complete /\ ChecksumOK(win)) =>
        LET alone == Feed(Fresh(before), win, 0)
        IN /\ nret = 1 /\ alone.n = 1
           /\ last = alone.ret
           /\ co2_level = alone.d.co2_level
           /\ rxstate = alone.d.rxstate

\* C5 witness: a valid CO2Level frame was decoded after stray bytes and
\* changed the measurement.
PrefixGarbageWitness ==
  garbage /\ Complete /\ ChecksumOK(win) /\ last = "CO2Level" /\ co2_level # before

\* C6 as stated: in a stream of back-to-back valid frames in which one byte is dropped
\* or injected inside a frame, the decoder returns no frame until it reads a
\* 0xFF in state 1, and once 18 bytes have been read after the disturbance
\* it has been in state 1 with the sentinel of a true frame next on the link.
DesyncBound ==
  /\ (disturbed = "yes" /\ ~ffseen) => ret = "None"
  /\ (disturbed = "yes" /\ since >= 2 * FrameLen) => synced

\* C6 as amended: the same, and every frame is decoded normally afterwards,
\* provided no frame of the stream has a 0xFF among its bytes 1..8 and the
\* injected byte is not the checksum byte of the frame it is injected into.
DesyncBoundTame ==
  tame =>
    /\ (disturbed = "yes" /\ ~ffseen) => ret = "None"
    /\ (disturbed = "yes" /\ since >= 2 * FrameLen) => synced
    /\ (synced /\ Complete) =>
          (ChecksumOK(win) /\ last = KindOfCode(win[2]) /\ nret = 1)

\* C6 witness: after a disturbance and the resynchronisation, a CO2Level
\* frame has been decoded.
DesyncWitness ==
  tame /\ disturbed = "yes" /\ synced /\ Complete /\ last = "CO2Level"

\* C14: once a 0xFF has been read in state 1, the next eight bytes are
\* read as bytes 2..9 of the window whatever their values (a 0xFF among them
\* does not start a new window); the first eight calls of a window return
\* None, and at most the ninth returns a packet kind; after the ninth byte
\* the state is 1 whether the checksum matched or not; the state is always
\* in 1..9.
OneFramePerWindow ==
  /\ [](/\ rxstate \in 1..9
        /\ Len(win) <= FrameLen
        /\ rxstate = (IF win = <<>> \/ Complete THEN 1 ELSE Len(win) + 1)
        /\ (win # <<>>) => win[1] = 255
        /\ (Len(win) \in 1..(FrameLen - 1)) => (ret = "None" /\ nret = 0)
        /\ nret <= 1)
  /\ [][(line # <<>> /\ line' = Tail(line)) =>
          /\ (rxstate = 1) => rxstate' = (IF Head(line) = 255 THEN 2 ELSE 1)
          /\ (rxstate \in 2..8) => (rxstate' = rxstate + 1 /\ ret' = "None")
          /\ (rxstate = 9) => rxstate' = 1
          /\ (ret' # "None") => rxstate = 9]_vars

\* C14 witness: a window with 0xFF as its second byte has been read to its
\* ninth byte, failed its checksum and left the decoder in state 1.
OneFramePerWindowWitness ==
  Complete /\ win[2] = 255 /\ rxstate = 1 /\ ~ChecksumOK(win) /\ nret = 0

\* C15: a call of rx_packet takes at most one byte from the link; a call
\* that finds no byte returns None and leaves rxstate, checksum, packet,
\* byte3 and co2_level as they were.
NoByteNoChange ==
  [][/\ Len(line') >= Len(line) - 1
     /\ (line' = line) =>
          /\ ret' = "None"
          /\ rxstate' = rxstate /\ checksum' = checksum /\ packet' = packet
          /\ byte3' = byte3 /\ co2_level' = co2_level]_vars

\* C15 witness: a call that found no byte has returned None after the call
\* that returned CO2Level, and the statics are those the frame left.
NoByteNoChangeWitness ==
  /\ Complete /\ nret = 1 /\ last = "CO2Level" /\ ret = "None"
  /\ line = <<>> /\ rxstate = 1 /\ checksum = 255 /\ co2_level = 420

(***************************************************************************)
(* Properties of main                                                      *)
(***************************************************************************)
\* The number of request_co2_level frames written so far.
Requests == IF Len(tx) > 2 THEN Len(tx) - 2 ELSE 0

\* C2: a value is printed only in an iteration of the steady-state loop in
\* which rx_packet returned CO2Level, and it is 256*hi + lo of the data bytes
\* of the checksum-valid window just completed; it lies in 0..65535.
PrintsOnlyValidReadings ==
  [][stdout' # stdout =>
       /\ pc = "steady"
       /\ ret' = "CO2Level"
       /\ Len(win') = FrameLen /\ ChecksumOK(win') /\ win'[2] = 134
       /\ stdout' = Append(stdout, 256 * win'[3] + win'[4])
       /\ 256 * win'[3] + win'[4] \in 0..65535]_vars

\* C2 witness: a reading has just been printed.
PrintsWitness ==
  pc = "cadence" /\ ret = "CO2Level" /\ stdout # <<>>
    /\ stdout[Len(stdout)] = 420

\* C7: the frames written form a prefix of abc_off, set_range(10000),
\* request_co2_level, request_co2_level, ...; abc_off is written once;
\* set_range is written only after rx_packet has returned ABCOff; a request
\* is written, and a reading printed, only after rx_packet has returned
\* SetRange following the set_range write.
StartupOrdering ==
  /\ \A i \in 1..Len(tx) :
        tx[i] = IF i = 1 THEN AbcOffFrame
                ELSE IF i = 2 THEN <<255, 1, 153, 39, 16, 0, 0, 0, 47>>
                ELSE RequestFrame
  /\ (pc # "abc_off") => Len(tx) >= 1
  /\ (Len(tx) >= 2) => "ABCOff" \in acks
  /\ (Len(tx) >= 3 \/ stdout # <<>>) => "SetRange" \in acks
  /\ (pc \in {"steady", "cadence"}) => (Len(tx) >= 2 /\ "SetRange" \in acks)

\* C7 witness: both handshakes done, a request written and a reading printed.
StartupOrderingWitness ==
  Len(tx) >= 3 /\ stdout # <<>> /\ pc = "steady"

\* C8: a handshake wait that ends on its deadline is fatal: the failed step
\* is reported on the standard error, main exits with a non-zero status, and
\* after that no frame is written and nothing is printed.
TimeoutIsFatal ==
  /\ [][(pc \in {"abc_check", "range_check"} /\ timed_out # 0 /\ pc' # pc) =>
          /\ pc' = "exit" /\ status' = 1
          /\ stderr' = Append(stderr, IF pc = "abc_check" THEN "ABC off"
                                                          ELSE "Set range")
          /\ tx' = tx /\ stdout' = stdout]_vars
  /\ [](pc = "exit" =>
          /\ status # 0 /\ stdout = <<>>
          /\ \/ stderr = <<"ABC off">> /\ tx = <<AbcOffFrame>>
             \/ stderr = <<"Set range">>
                  /\ tx = <<AbcOffFrame, SetRangeFrame(10000)>>)
  /\ []((pc # "exit") => (status = -1 /\ stderr = <<>>))

\* C8 witness: main has exited on the timeout of the set-range handshake.
TimeoutIsFatalWitness ==
  pc = "exit" /\ status = 1 /\ stderr = <<"Set range">>

\* C9: with the clock advancing and every call returning, start-up ends in
\* the steady-state loop or in an exit; a wait loop is left at the first
\* test made two seconds or more after its start; on a link that never
\* delivers a byte the outcome is the ABC-off timeout.
InitTerminates ==
  /\ <>(pc \in {"steady", "cadence", "exit"})
  /\ [][(pc \in {"abc_wait", "range_wait"} /\ now - ref_time >= HandshakeSecs
           /\ now' = now /\ line' = line) =>
          /\ pc' = (IF pc = "abc_wait" THEN "abc_check" ELSE "range_check")
          /\ timed_out' = 1]_vars
  /\ <>(~quiet \/ (pc = "exit" /\ stderr = <<"ABC off">> /\ status = 1
                     /\ now - ref_time >= HandshakeSecs))

\* C9 witness: the link stayed silent and main exited on the ABC-off timeout.
InitTerminatesWitness ==
  quiet /\ pc = "exit" /\ stderr = <<"ABC off">>

\* The loop has run its cadence step in every second since it was entered.
EverySecond == pc = "steady" /\ fresh /\ ~missed

\* C10 as stated: d seconds after the entry to the steady-state loop the
\* number of requests written is floor(d / 10).
CadenceFloor ==
  EverySecond => Requests = (now - t0) \div 10

\* C10 as amended: the number of requests written is floor((d - 1) / 10)
\* for d >= 1, and 0 for d = 0 (a request is written when the clock exceeds
\* ref_time + 10, that is from second 11 of each period on).
CadenceFloorStrict ==
  EverySecond =>
    Requests = IF now = t0 THEN 0 ELSE (now - t0 - 1) \div 10

\* C10 witness: the second request was written 21 seconds after the entry.
CadenceWitness ==
  EverySecond /\ Requests = 2 /\ now - t0 = 21

\* C11: in the steady-state loop ref_time is changed only by the cadence
\* step, by exactly +10 and together with the write of one request, when
\* the clock read exceeds ref_time + 10 (it is never set to the clock); a
\* call of rx_packet, whatever it returns, leaves ref_time alone; so
\* ref_time = t0 + 10 * (requests written), and the k-th request is written
\* only once the clock exceeds t0 + 10 * k.
RefTimeSchedule ==
  /\ []((pc \in {"steady", "cadence"}) =>
          /\ ref_time = t0 + 10 * Requests
          /\ (Requests >= 1) => now > t0 + 10 * Requests)
  /\ [][(pc \in {"steady", "cadence"} /\ ref_time' # ref_time) =>
          /\ pc = "cadence"
          /\ now > ref_time + 10
          /\ ref_time' = ref_time + 10
          /\ ref_time' # now
          /\ tx' = Append(tx, RequestFrame)
          /\ line' = line /\ ret' = ret]_vars
  /\ [][(pc \in {"steady", "cadence"} /\ tx' # tx) =>
          /\ tx' = Append(tx, RequestFrame)
          /\ ref_time' = ref_time + 10]_vars
  /\ [][(pc = "steady" /\ line' # line) => ref_time' = ref_time]_vars

\* C11 witness: the loop fell behind, and its second request has been
\* written with ref_time at t0 + 20.
RefTimeWitness ==
  pc = "steady" /\ Requests = 2 /\ ref_time = t0 + 20 /\ now > ref_time
    /\ last = "CO2Level"

\* A call of rx_packet reads a byte in this step.
ByteRead == line # <<>> /\ line' = Tail(line)

\* C16: a checksum-valid frame whose command byte is none of 0x86, 0x79 and
\* 0x99 is returned as Other on its ninth byte and leaves co2_level as it
\* was; main prints nothing and ends no handshake wait on Other; whatever
\* the checksum, a frame whose command byte is not 0x86 leaves co2_level as
\* it was.
OtherIsInert ==
  /\ []((Complete /\ ChecksumOK(win) /\ win[2] \notin {134, 121, 153}) =>
          (last = "Other" /\ nret = 1 /\ co2_level = before))
  /\ []((Len(win) >= 2 /\ win[2] # 134) => co2_level = before)
  /\ [][(ByteRead /\ Len(win') = FrameLen /\ ChecksumOK(win')
           /\ win'[2] \notin {134, 121, 153}) => ret' = "Other"]_vars
  /\ [][(ByteRead /\ ret' = "Other") =>
          /\ outputs' = outputs
          /\ (pc \in {"abc_wait", "range_wait"}) =>
                (pc' = pc /\ timed_out' = timed_out)]_vars

\* C16 witness: during the wait for ABCOff a frame of another kind has been
\* returned as Other; the wait goes on and the reading decoded before it
\* stands.
OtherIsInertWitness ==
  /\ pc = "abc_wait" /\ timed_out = 1
  /\ ret = "Other" /\ win = Reply(1, 2, 3)
  /\ co2_level = 420 /\ stdout = <<>>

\* C17: a handshake wait ends without timeout only in the step in which
\* rx_packet returns the kind waited for; a frame of another kind returned
\* during the wait (CO2Level, SetRange or Other while waiting for ABCOff;
\* CO2Level, ABCOff or Other while waiting for SetRange) leaves the wait
\* going, writes and prints nothing and changes nothing in main; nothing is
\* printed before the steady-state loop, and what is printed there is the
\* reading of the frame just completed.
HandshakeDiscards ==
  /\ [][(pc = "abc_wait" /\ ByteRead /\ ret' \in {"CO2Level", "SetRange", "Other"}) =>
          (control' = control /\ outputs' = outputs)]_vars
  /\ [][(pc = "range_wait" /\ ByteRead /\ ret' \in {"CO2Level", "ABCOff", "Other"}) =>
          (control' = control /\ outputs' = outputs)]_vars
  /\ [][(pc = "abc_wait" /\ pc' # pc /\ timed_out' = 0) =>
          (ByteRead /\ ret' = "ABCOff")]_vars
  /\ [][(pc = "range_wait" /\ pc' # pc /\ timed_out' = 0) =>
          (ByteRead /\ ret' = "SetRange")]_vars
  /\ []((pc \notin {"steady", "cadence"}) => stdout = <<>>)
  /\ [][(stdout' # stdout) =>
          /\ pc = "steady" /\ ByteRead
          /\ stdout' = Append(stdout, 256 * win'[3] + win'[4])]_vars

\* C17 witness: a SetRange frame has been returned during the wait for
\* ABCOff, before set_range was written, and the wait goes on.
HandshakeDiscardsWitness ==
  /\ pc = "abc_wait" /\ timed_out = 1 /\ Len(tx) = 1
  /\ ret = "SetRange" /\ Complete /\ stdout = <<>>

\* C18: when the nine bytes of a window do not sum to 0xFF, all nine calls
\* have returned None, nothing is written or printed, no wait ends, and the
\* decoder is in state 1; a valid CO2Level frame that follows at once is
\* decoded, returned and, in the steady-state loop, printed with its own
\* value.
ChecksumFailureSilent ==
  /\ []((Complete /\ ~ChecksumOK(win)) =>
          (nret = 0 /\ last = "None" /\ ret = "None" /\ rxstate = 1))
  /\ [][(ByteRead /\ Len(win') = FrameLen /\ ~ChecksumOK(win')) =>
          /\ outputs' = outputs
          /\ (pc \in {"abc_wait", "range_wait"}) =>
                (pc' = pc /\ timed_out' = timed_out)]_vars
  /\ []((prevbad /\ Complete /\ ChecksumOK(win) /\ win[2] = 134) =>
          (last = "CO2Level" /\ nret = 1 /\ co2_level = 256 * win[3] + win[4]))
  /\ [][(pc = "steady" /\ ByteRead /\ prevbad' /\ Len(win') = FrameLen
           /\ ChecksumOK(win') /\ win'[2] = 134) =>
          /\ ret' = "CO2Level"
          /\ stdout' = Append(stdout, 256 * win'[3] + win'[4])]_vars

\* C18 witness: right after a window that failed its checksum (and had set
\* co2_level to 7), the 420 ppm frame has been decoded and printed.
ChecksumFailureWitness ==
  /\ prevbad /\ Complete /\ before = 7
  /\ pc = "cadence" /\ ret = "CO2Level"
  /\ stdout # <<>> /\ stdout[Len(stdout)] = 420

\* C19: on a start-up without timeout the decoder is in state 1 when
\* set_range is written and when the steady-state loop is entered.
DecoderIdleAtHandoff ==
  /\ []((pc \in {"abc_check", "range_check"} /\ timed_out = 0) => rxstate = 1)
  /\ [][((Len(tx) = 1 /\ Len(tx') = 2)
           \/ (pc = "range_check" /\ pc' = "steady")) =>
          (rxstate = 1 /\ rxstate' = 1)]_vars

\* C19 witness: the steady-state loop has just been entered, the decoder in
\* state 1 after the SetRange acknowledgement.
DecoderIdleWitness ==
  /\ pc = "steady" /\ ~fresh /\ now = t0 /\ Len(tx) = 2
  /\ ret = "SetRange" /\ rxstate = 1 /\ Complete

\* C20 as stated: in the steady-state loop ref_time is strictly below the
\* last reading of the clock.
RefBelowClock ==
  (pc = "steady" /\ fresh) => ref_time < now

\* C20 as amended: an iteration of the steady-state loop writes at most one
\* request; ref_time never exceeds the clock, and is strictly below it once
\* a request has been written (it equals the clock when the loop is
\* entered); a cadence step that reads a clock more than 10 above ref_time
\* writes one request and adds exactly 10, so a loop that has fallen behind
\* writes the missed requests in consecutive iterations, one each, skipping
\* none, until the clock is at most 10 above ref_time.
CatchUp ==
  /\ []((pc \in {"steady", "cadence"}) =>
          /\ ref_time <= now
          /\ (Requests >= 1) => ref_time < now
          /\ ref_time = t0 + 10 * Requests)
  /\ [][Len(tx') <= Len(tx) + 1]_vars
  /\ [][(pc = "steady") => tx' = tx]_vars
  /\ [][(pc = "cadence" /\ pc' = "steady") =>
          IF now - ref_time > 10
            THEN /\ tx' = Append(tx, RequestFrame)
                 /\ ref_time' = ref_time + 10
                 /\ ref_time' < now
            ELSE tx' = tx /\ ref_time' = ref_time]_vars

\* C20 witness: the loop fell more than 20 s behind; the cadence step has
\* written the first missed request at the present clock and the second is
\* still due.
CatchUpWitness ==
  /\ pc = "steady" /\ fresh /\ missed
  /\ Requests = 1 /\ now - t0 > 20 /\ now - ref_time > 10

(***************************************************************************)
(* Properties of the frame writers                                         *)
(***************************************************************************)
\* C12: set_range called with a range other than 2000, 5000 and 10000
\* returns -1, writes nothing, and leaves its buffer and the statics of the
\* decoder as they were; called with one of the three it writes exactly one
\* frame of nine bytes and returns 0.
RangeRejection ==
  [][(ncalls' # ncalls /\ call'.op = "set_range") =>
       IF call'.arg \notin {2000, 5000, 10000}
         THEN /\ call'.rc = -1
              /\ tx' = tx
              /\ range_buf' = range_buf
              /\ decoder' = decoder
         ELSE /\ call'.rc = 0
              /\ Len(tx') = Len(tx) + 1
              /\ SubSeq(tx', 1, Len(tx)) = tx
              /\ Len(tx'[Len(tx')]) = 9
              /\ decoder' = decoder]_vars

\* C12 witness: after a frame was written and with the decoder inside a
\* window, set_range(3000) has returned -1.
RangeRejectionWitness ==
  /\ call = [op |-> "set_range", arg |-> 3000, rc |-> -1]
  /\ range_buf # SetRangeBuf /\ Len(tx) = 1
  /\ rxstate = 5

\* C13: every frame written is FF 01 cmd HH LL 00 00 00 CK with cmd 0x86,
\* 0x79 or 0x99, HH LL the range of a set_range frame, high byte first, and
\* 00 00 otherwise, and its nine bytes sum to 0xFF modulo 256; the frame
\* written by set_range(10000) is FF 01 99 27 10 00 00 00 2F; this holds
\* whatever set_range calls came before.
OutboundFrames ==
  /\ \A i \in 1..Len(tx) :
       LET f == tx[i]
       IN /\ Len(f) = 9
          /\ f[1] = 255 /\ f[2] = 1
          /\ f[3] \in {134, 121, 153}
          /\ f[6] = 0 /\ f[7] = 0 /\ f[8] = 0
          /\ (f[1] + f[2] + f[3] + f[4] + f[5] + f[6] + f[7] + f[8] + f[9]) % 256 = 255
          /\ IF f[3] = 153 THEN 256 * f[4] + f[5] \in {2000, 5000, 10000}
                           ELSE f[4] = 0 /\ f[5] = 0
  /\ (call.op = "set_range" /\ call.rc = 0) =>
       LET f == tx[Len(tx)]
       IN /\ f[3] = 153
          /\ f[4] = call.arg \div 256 /\ f[5] = call.arg % 256
          /\ (call.arg = 10000) => f = <<255, 1, 153, 39, 16, 0, 0, 0, 47>>
  /\ (call.op = "abc_off") => tx[Len(tx)] = <<255, 1, 121, 0, 0, 0, 0, 0, 134>>
  /\ (call.op = "request_co2_level") => tx[Len(tx)] = <<255, 1, 134, 0, 0, 0, 0, 0, 121>>

\* C13 witness: set_range(10000) has written its frame right after a
\* set_range frame for another range.
OutboundFramesWitness ==
  /\ call = [op |-> "set_range", arg |-> 10000, rc |-> 0]
  /\ Len(tx) >= 2
  /\ tx[Len(tx) - 1][3] = 153 /\ tx[Len(tx) - 1] # tx[Len(tx)]

====
